---- MODULE Spec2Model ----
(***************************************************************************)
(* State-machine model of the concept server: the concepts, the router and *)
(* the responses on top of the generic document store.  Collections        *)
(* are sequences of documents in insertion order; a document is a record   *)
(* with an _id field; a filter maps field names to the set of values the   *)
(* field may take (an exact match is a singleton, $in a larger set).       *)
(***************************************************************************)
EXTENDS Integers, Sequences, FiniteSets, TLC

VARIABLES users, nextUserId, requests, friends, nextFriendingId, call,
          labels, nextLabelId, sourcingColl, nextSourcingId,
          templatingColl, nextTemplatingId, sorts,
          feeds, postColls, nextPostingId, procs

vars == <<users, nextUserId, requests, friends, nextFriendingId, call,
          labels, nextLabelId, sourcingColl, nextSourcingId,
          templatingColl, nextTemplatingId, sorts,
          feeds, postColls, nextPostingId, procs>>
authVars == <<users, nextUserId>>
friendingVars == <<requests, friends, nextFriendingId>>
labellingVars == <<labels, nextLabelId>>
\* what the actions of one concept leave alone: the other concepts' collections
sourcingVars == <<sourcingColl, nextSourcingId>>
templatingVars == <<templatingColl, nextTemplatingId>>
sortingVars == <<sorts>>
postingVars == <<feeds, postColls, nextPostingId>>
\* the calls in progress of the interleaved Friending actions
raceVars == <<procs>>
notAuthVars == <<friendingVars, labellingVars, sourcingVars, templatingVars, sortingVars, postingVars, raceVars>>
notFriendingVars == <<authVars, labellingVars, sourcingVars, templatingVars, sortingVars, postingVars, raceVars>>
notLabellingVars == <<authVars, friendingVars, sourcingVars, templatingVars, sortingVars, postingVars, raceVars>>
notSourcingVars == <<authVars, friendingVars, labellingVars, templatingVars, sortingVars, postingVars, raceVars>>
notTemplatingVars == <<authVars, friendingVars, labellingVars, sourcingVars, sortingVars, postingVars, raceVars>>
notPostingVars == <<authVars, friendingVars, labellingVars, sourcingVars, templatingVars, sortingVars, raceVars>>
notSortingVars == <<authVars, friendingVars, labellingVars, sourcingVars, templatingVars, postingVars, raceVars>>

(***************************************************************************)
(* Bounds                                                                  *)
(***************************************************************************)
\* number of User documents ever created (ids 1..MaxUserIds)
MaxUserIds == 3
\* length of the id list handed to idsToUsernames
MaxIdList == 2
\* number of Friending documents (requests and friendships) ever created
MaxFriendingIds == 6
\* number of Label documents ever created
MaxLabelIds == 2
\* number of documents ever created in the Sourcing collection
MaxSourcingIds == 2
\* number of documents ever created in the Templating collection
MaxTemplatingIds == 2
\* number of feeds and posts ever created by Posting
MaxPostingIds == 3
\* number of requests and friendships ever created by interleaved calls
MaxRaceIds == 6

Usernames == {"", "a", "b"}
Passwords == {"", "p", "q"}
UserIds == 1..MaxUserIds
\* the user ids the Friending actions are called with
FriendUsers == {1, 2, 3}

\* the arguments the Labelling actions are called with
Labels == {"work", "home"}
LabelUsers == {1, 2}
Resources == {1, 2}

\* the arguments the Sourcing, Templating and Sorting actions are called with
SourceTargets == {"URL", "File"}
Uris == {"u", "v"}
ContentUsers == {1, 2}
SourcingIds == 1..(MaxSourcingIds + 1)
TemplatingIds == 1..(MaxTemplatingIds + 1)
\* ObjectIds are unique over all collections: the ids of weight profiles
\* are apart from the ids the other collections hand out
SortIds == {11, 12}
Weights == {1, 2}
Feeds == {{}, {1}}
RenderData == {<<>>, [title |-> 1]}

\* the arguments the Posting actions are called with
FeedNames == {"f", "g"}
Authors == {1, 2}
Contents == {7}
PostingIds == 1..(MaxPostingIds + 1)

\* the value readOne returns when nothing matches
Null == [null |-> TRUE]

(***************************************************************************)
(* Generic store (DocCollection)                                           *)
(***************************************************************************)
\* a document matches a filter when every filtered field is present in the
\* document and holds one of the admitted values
Matches(doc, filter) ==
  \A k \in DOMAIN filter : k \in DOMAIN doc /\ doc[k] \in filter[k]

\* $or of several filters
MatchesAny(doc, filters) == \E f \in filters : Matches(doc, f)

\* index of the first document matching one of the filters, 0 if none
FirstMatch(coll, filters) ==
  IF \E i \in 1..Len(coll) : MatchesAny(coll[i], filters)
  THEN CHOOSE i \in 1..Len(coll) :
         /\ MatchesAny(coll[i], filters)
         /\ \A j \in 1..(i - 1) : ~MatchesAny(coll[j], filters)
  ELSE 0

RemoveAt(coll, i) == SubSeq(coll, 1, i - 1) \o SubSeq(coll, i + 1, Len(coll))

createOne(coll, id, fields) == Append(coll, [_id |-> id] @@ fields)

readOne(coll, filters) ==
  IF FirstMatch(coll, filters) = 0 THEN Null ELSE coll[FirstMatch(coll, filters)]

readMany(coll, filters) == SelectSeq(coll, LAMBDA d : MatchesAny(d, filters))

partialUpdateOne(coll, filters, patch) ==
  IF FirstMatch(coll, filters) = 0 THEN coll
  ELSE [coll EXCEPT ![FirstMatch(coll, filters)] = patch @@ @]

deleteOne(coll, filters) ==
  IF FirstMatch(coll, filters) = 0 THEN coll
  ELSE RemoveAt(coll, FirstMatch(coll, filters))

\* popOne: the error it raises, and the collection it leaves
popOneErr(coll, filters) ==
  IF FirstMatch(coll, filters) = 0 THEN "NotFound" ELSE "ok"

popOne(coll, filters) == deleteOne(coll, filters)

\* a bare ObjectId given as the filter: lookup by id
IdFilter(id) == {[_id |-> {id}]}

assertDoesExist(doc) == IF doc = Null THEN "NotFound" ELSE "ok"

assertDoesNotExist(doc) == IF doc # Null THEN "NotAllowed" ELSE "ok"

(***************************************************************************)
(* Authenticating                                                          *)
(***************************************************************************)
\* the record of the last call: its operation, arguments and outcome
AuthCall(op, id, username, password, newPassword, ids, err, retId, retNames) ==
  [op |-> op, id |-> id, username |-> username, password |-> password,
   newPassword |-> newPassword, ids |-> ids, err |-> err, retId |-> retId,
   retNames |-> retNames]

\* mutant: the check never finds the name
assertUsernameUnique_never(coll, username) == "ok"

assertUsernameUnique(coll, username) ==
  assertDoesNotExist(readOne(coll, {[username |-> {username}]}))

\* mutant: the uniqueness check is left out
assertGoodCredentials_noUnique(coll, username, password) ==
  IF username = "" \/ password = "" THEN "BadValues" ELSE "ok"

\* !username || !password: the empty string is falsy
assertGoodCredentials(coll, username, password) ==
  IF username = "" \/ password = "" THEN "BadValues"
  ELSE assertUsernameUnique(coll, username)

register(username, password) ==
  LET err == assertGoodCredentials(users, username, password) IN
  /\ err = "ok" => nextUserId <= MaxUserIds
  /\ IF err = "ok"
     THEN /\ users' = createOne(users, nextUserId,
                                [username |-> username, password |-> password])
          /\ nextUserId' = nextUserId + 1
     ELSE UNCHANGED authVars
  /\ call' = AuthCall("register", 0, username, password, "", <<>>, err,
                      IF err = "ok" THEN nextUserId ELSE 0, <<>>)
  /\ UNCHANGED notAuthVars

\* ObjectId.toString(): the hexadecimal rendering, one string per id
toString(id) == <<"ObjectId", id>>

\* new Map(users.map((user) => [user._id.toString(), user]))
idToUser(found) ==
  [k \in {toString(found[i]._id) : i \in 1..Len(found)} |->
     found[CHOOSE i \in 1..Len(found) :
             /\ toString(found[i]._id) = k
             /\ \A j \in (i + 1)..Len(found) : toString(found[j]._id) # k]]

\* mutant: ids of no stored User are dropped from the list
lookupUsernames_dropInvalid(coll, ids) ==
  LET found == readMany(coll, {[_id |-> {ids[i] : i \in 1..Len(ids)}]})
      map == idToUser(found)
      kept == SelectSeq(ids, LAMBDA id : toString(id) \in DOMAIN map)
  IN [i \in 1..Len(kept) |-> map[toString(kept[i])].username]

\* ids.map((id) => idToUser.get(id.toString())?.username ?? "DELETED_USER")
lookupUsernames(coll, ids) ==
  LET found == readMany(coll, {[_id |-> {ids[i] : i \in 1..Len(ids)}]})
      map == idToUser(found)
  IN [i \in 1..Len(ids) |->
        IF toString(ids[i]) \in DOMAIN map
        THEN map[toString(ids[i])].username
        ELSE "DELETED_USER"]

idsToUsernames(ids) ==
  /\ call' = AuthCall("idsToUsernames", 0, "", "", "", ids, "ok", 0,
                      lookupUsernames(users, ids))
  /\ UNCHANGED notFriendingVars
  /\ UNCHANGED notAuthVars

\* mutant: the password is left out of the filter
authenticate_byUsername(username, password) ==
  LET user == readOne(users, {[username |-> {username}]})
      err == assertDoesExist(user)
  IN /\ call' = AuthCall("authenticate", 0, username, password, "", <<>>, err,
                         IF err = "ok" THEN user._id ELSE 0, <<>>)
     /\ UNCHANGED notFriendingVars
     /\ UNCHANGED notAuthVars

authenticate(username, password) ==
  LET user == readOne(users, {[username |-> {username}, password |-> {password}]})
      err == assertDoesExist(user)
  IN /\ call' = AuthCall("authenticate", 0, username, password, "", <<>>, err,
                         IF err = "ok" THEN user._id ELSE 0, <<>>)
     /\ UNCHANGED notFriendingVars
     /\ UNCHANGED notAuthVars

\* mutant: a User's own name is not counted as taken
updateUsername_ownNameAllowed(_id, username) ==
  LET held == readOne(users, {[username |-> {username}]})
      err == IF held # Null /\ held._id # _id THEN "NotAllowed" ELSE "ok"
  IN /\ IF err = "ok"
        THEN users' = partialUpdateOne(users, {[_id |-> {_id}]}, [username |-> username])
        ELSE users' = users
     /\ call' = AuthCall("updateUsername", _id, username, "", "", <<>>, err, 0, <<>>)
     /\ UNCHANGED nextUserId
     /\ UNCHANGED notAuthVars

updateUsername(_id, username) ==
  LET err == assertUsernameUnique(users, username) IN
  /\ IF err = "ok"
     THEN users' = partialUpdateOne(users, {[_id |-> {_id}]}, [username |-> username])
     ELSE users' = users
  /\ call' = AuthCall("updateUsername", _id, username, "", "", <<>>, err, 0, <<>>)
  /\ UNCHANGED nextUserId
  /\ UNCHANGED notAuthVars

\* const filter = { _id, currentPassword }: the filter names a field
\* currentPassword, which is not a field of UserDoc
updatePassword(_id, currentPassword, newPassword) ==
  LET filter == [_id |-> {_id}, currentPassword |-> {currentPassword}]
      user == readOne(users, {filter})
      err == assertDoesExist(user)
  IN /\ IF err = "ok"
        THEN users' = partialUpdateOne(users, {[_id |-> {_id}]}, [password |-> newPassword])
        ELSE users' = users
     /\ call' = AuthCall("updatePassword", _id, "", currentPassword, newPassword,
                         <<>>, err, 0, <<>>)
     /\ UNCHANGED nextUserId
     /\ UNCHANGED notAuthVars

delete(_id) ==
  /\ users' = deleteOne(users, {[_id |-> {_id}]})
  /\ call' = AuthCall("delete", _id, "", "", "", <<>>, "ok", 0, <<>>)
  /\ UNCHANGED nextUserId
  /\ UNCHANGED notAuthVars

(***************************************************************************)
(* Friending                                                               *)
(***************************************************************************)
FriendingCall(op, from, to, err) ==
  [op |-> op, from |-> from, to |-> to, err |-> err]

PairFilter(u1, u2) ==
  {[user1 |-> {u1}, user2 |-> {u2}], [user1 |-> {u2}, user2 |-> {u1}]}

\* mutant: the status is left out of the filter
PendingFilter_anyStatus(from, to) == {[from |-> {from}, to |-> {to}]}

PendingFilter(from, to) ==
  {[from |-> {from}, to |-> {to}, status |-> {"pending"}]}

\* friendships.map((friendship) => friendship.user1 == user ? user2 : user1)
getFriends(coll, user) ==
  LET friendships == readMany(coll, {[user1 |-> {user}], [user2 |-> {user}]})
  IN [i \in 1..Len(friendships) |->
        IF toString(friendships[i].user1) = toString(user)
        THEN friendships[i].user2
        ELSE friendships[i].user1]

addFriend(coll, id, user1, user2) ==
  createOne(coll, id, [user1 |-> user1, user2 |-> user2])

\* the error removePendingRequest raises; the row it removes is popOne's
removePendingRequest(coll, from, to) == popOneErr(coll, PendingFilter(from, to))

\* mutant: only the edge stored as (u1, u2) is looked for
assertNotFriends_oneDirection(coll, u1, u2) ==
  IF readOne(coll, {[user1 |-> {u1}, user2 |-> {u2}]}) # Null
       \/ toString(u1) = toString(u2)
  THEN "NotAllowed" ELSE "ok"

\* mutant: a user is not compared with itself
assertNotFriends_noSelfCheck(coll, u1, u2) ==
  IF readOne(coll, PairFilter(u1, u2)) # Null THEN "NotAllowed" ELSE "ok"

assertNotFriends(coll, u1, u2) ==
  IF readOne(coll, PairFilter(u1, u2)) # Null \/ toString(u1) = toString(u2)
  THEN "NotAllowed" ELSE "ok"

\* mutant: only a pending request in the same direction is looked for
canSendRequest_sameDirection(fr, rq, u1, u2) ==
  IF assertNotFriends(fr, u1, u2) # "ok" THEN assertNotFriends(fr, u1, u2)
  ELSE IF readOne(rq, PendingFilter(u1, u2)) # Null THEN "NotAllowed"
  ELSE "ok"

\* mutant: a row of any status between the two users blocks the request
canSendRequest_anyStatus(fr, rq, u1, u2) ==
  IF assertNotFriends(fr, u1, u2) # "ok" THEN assertNotFriends(fr, u1, u2)
  ELSE IF readOne(rq, {[from |-> {u1, u2}, to |-> {u1, u2}]}) # Null
       THEN "NotAllowed"
  ELSE "ok"

canSendRequest(fr, rq, u1, u2) ==
  IF assertNotFriends(fr, u1, u2) # "ok" THEN assertNotFriends(fr, u1, u2)
  ELSE IF readOne(rq, {[from |-> {u1, u2}, to |-> {u1, u2},
                        status |-> {"pending"}]}) # Null
       THEN "NotAllowed"
  ELSE "ok"

createRequest(from, to) ==
  LET err == canSendRequest(friends, requests, from, to) IN
  /\ err = "ok" => nextFriendingId <= MaxFriendingIds
  /\ IF err = "ok"
     THEN /\ requests' = createOne(requests, nextFriendingId,
                                   [from |-> from, to |-> to, status |-> "pending"])
          /\ nextFriendingId' = nextFriendingId + 1
     ELSE UNCHANGED <<requests, nextFriendingId>>
  /\ call' = FriendingCall("createRequest", from, to, err)
  /\ UNCHANGED friends
  /\ UNCHANGED notFriendingVars

\* mutant: the accepted row is logged but no Friendship is added
acceptRequest_noEdge(from, to) ==
  LET err == removePendingRequest(requests, from, to) IN
  /\ err = "ok" => nextFriendingId + 1 <= MaxFriendingIds
  /\ IF err = "ok"
     THEN /\ requests' = createOne(popOne(requests, PendingFilter(from, to)),
                                   nextFriendingId,
                                   [from |-> from, to |-> to, status |-> "accepted"])
          /\ nextFriendingId' = nextFriendingId + 2
     ELSE UNCHANGED <<requests, nextFriendingId>>
  /\ call' = FriendingCall("acceptRequest", from, to, err)
  /\ UNCHANGED friends
  /\ UNCHANGED notFriendingVars

acceptRequest(from, to) ==
  LET err == removePendingRequest(requests, from, to) IN
  /\ err = "ok" => nextFriendingId + 1 <= MaxFriendingIds
  /\ IF err = "ok"
     THEN /\ requests' = createOne(popOne(requests, PendingFilter(from, to)),
                                   nextFriendingId,
                                   [from |-> from, to |-> to, status |-> "accepted"])
          /\ friends' = addFriend(friends, nextFriendingId + 1, from, to)
          /\ nextFriendingId' = nextFriendingId + 2
     ELSE UNCHANGED friendingVars
  /\ call' = FriendingCall("acceptRequest", from, to, err)
  /\ UNCHANGED notFriendingVars

\* mutant: the pending row is removed but no rejected row is logged
rejectRequest_noLog(from, to) ==
  LET err == removePendingRequest(requests, from, to) IN
  /\ IF err = "ok"
     THEN requests' = popOne(requests, PendingFilter(from, to))
     ELSE requests' = requests
  /\ call' = FriendingCall("rejectRequest", from, to, err)
  /\ UNCHANGED <<friends, nextFriendingId>>
  /\ UNCHANGED notFriendingVars

rejectRequest(from, to) ==
  LET err == removePendingRequest(requests, from, to) IN
  /\ err = "ok" => nextFriendingId <= MaxFriendingIds
  /\ IF err = "ok"
     THEN /\ requests' = createOne(popOne(requests, PendingFilter(from, to)),
                                   nextFriendingId,
                                   [from |-> from, to |-> to, status |-> "rejected"])
          /\ nextFriendingId' = nextFriendingId + 1
     ELSE UNCHANGED <<requests, nextFriendingId>>
  /\ call' = FriendingCall("rejectRequest", from, to, err)
  /\ UNCHANGED friends
  /\ UNCHANGED notFriendingVars

removeRequest(from, to) ==
  LET err == removePendingRequest(requests, from, to) IN
  /\ IF err = "ok"
     THEN requests' = popOne(requests, PendingFilter(from, to))
     ELSE requests' = requests
  /\ call' = FriendingCall("removeRequest", from, to, err)
  /\ UNCHANGED <<friends, nextFriendingId>>
  /\ UNCHANGED notFriendingVars

\* mutant: only the edge stored as (user, friend) is removed
removeFriend_oneDirection(user, friend) ==
  LET filter == {[user1 |-> {user}, user2 |-> {friend}]}
      err == popOneErr(friends, filter)
  IN /\ IF err = "ok"
        THEN friends' = popOne(friends, filter)
        ELSE friends' = friends
     /\ call' = FriendingCall("removeFriend", user, friend, err)
     /\ UNCHANGED <<requests, nextFriendingId>>
     /\ UNCHANGED notFriendingVars

removeFriend(user, friend) ==
  LET err == popOneErr(friends, PairFilter(user, friend)) IN
  /\ IF err = "ok"
     THEN friends' = popOne(friends, PairFilter(user, friend))
     ELSE friends' = friends
  /\ call' = FriendingCall("removeFriend", user, friend, err)
  /\ UNCHANGED <<requests, nextFriendingId>>
  /\ UNCHANGED notFriendingVars

(***************************************************************************)
(* Friending, interleaved: every store call is one atomic step, and the    *)
(* calls of different requests interleave between their store calls        *)
(***************************************************************************)
\* the requests served at the same time; each makes one call
Procs == {"p", "q", "r", "s"}
RacePairs == {<<1, 2>>, <<2, 1>>}
Consumers == {"acceptRequest", "rejectRequest", "removeRequest"}
RaceOps == {"createRequest"} \cup Consumers

Idle == [op |-> "none", from |-> 0, to |-> 0, pc |-> "idle", err |-> "ok"]

notRaceVars == <<authVars, labellingVars, sourcingVars, templatingVars,
                 sortingVars, postingVars, call>>

\* a request arrives and its action is entered
Race_start(p, op, from, to) ==
  /\ procs[p].pc = "idle"
  /\ procs' = [procs EXCEPT ![p] =
       [op |-> op, from |-> from, to |-> to, err |-> "ok",
        pc |-> IF op = "createRequest" THEN "assertNotFriends" ELSE "popOne"]]
  /\ UNCHANGED friendingVars
  /\ UNCHANGED notRaceVars

\* canSendRequest, first store call: this.friends.readOne in assertNotFriends
Race_assertNotFriends(p) ==
  LET c == procs[p]
      err == assertNotFriends(friends, c.from, c.to)
  IN /\ c.pc = "assertNotFriends"
     /\ procs' = [procs EXCEPT ![p].err = err,
                               ![p].pc = IF err = "ok" THEN "readPending" ELSE "done"]
     /\ UNCHANGED friendingVars
     /\ UNCHANGED notRaceVars

\* canSendRequest, second store call: this.requests.readOne of a pending row
Race_readPending(p) ==
  LET c == procs[p]
      request == readOne(requests, {[from |-> {c.from, c.to}, to |-> {c.from, c.to},
                                     status |-> {"pending"}]})
      err == IF request # Null THEN "NotAllowed" ELSE "ok"
  IN /\ c.pc = "readPending"
     /\ procs' = [procs EXCEPT ![p].err = err,
                               ![p].pc = IF err = "ok" THEN "createOne" ELSE "done"]
     /\ UNCHANGED friendingVars
     /\ UNCHANGED notRaceVars

\* createRequest, last store call: this.requests.createOne of the pending row
Race_createPending(p) ==
  LET c == procs[p]
  IN /\ c.pc = "createOne"
     /\ nextFriendingId <= MaxRaceIds
     /\ requests' = createOne(requests, nextFriendingId,
                              [from |-> c.from, to |-> c.to, status |-> "pending"])
     /\ nextFriendingId' = nextFriendingId + 1
     /\ procs' = [procs EXCEPT ![p].pc = "done"]
     /\ UNCHANGED friends
     /\ UNCHANGED notRaceVars

\* what follows the pop in each of the three actions
AfterPop(op) ==
  CASE op = "acceptRequest" -> "insertBoth"
    [] op = "rejectRequest" -> "insertRow"
    [] OTHER -> "done"

\* mutant: the pop goes on when no pending row matched
Race_removePendingRequest_noError(p) ==
  LET c == procs[p]
  IN /\ c.pc = "popOne"
     /\ requests' = popOne(requests, PendingFilter(c.from, c.to))
     /\ procs' = [procs EXCEPT ![p].pc = AfterPop(c.op)]
     /\ UNCHANGED <<friends, nextFriendingId>>
     /\ UNCHANGED notRaceVars

\* removePendingRequest: this.requests.popOne, one atomic read and delete
Race_removePendingRequest(p) ==
  LET c == procs[p]
      err == removePendingRequest(requests, c.from, c.to)
  IN /\ c.pc = "popOne"
     /\ IF err = "ok"
        THEN requests' = popOne(requests, PendingFilter(c.from, c.to))
        ELSE requests' = requests
     /\ procs' = [procs EXCEPT ![p].err = err,
                               ![p].pc = IF err = "ok" THEN AfterPop(c.op) ELSE "done"]
     /\ UNCHANGED <<friends, nextFriendingId>>
     /\ UNCHANGED notRaceVars

\* this.requests.createOne of the accepted or rejected row; in acceptRequest
\* it is one of the two calls given to Promise.all, which end in either order
Race_insertRow(p) ==
  LET c == procs[p]
  IN /\ c.pc \in {"insertBoth", "insertRow"}
     /\ nextFriendingId <= MaxRaceIds
     /\ requests' = createOne(requests, nextFriendingId,
           [from |-> c.from, to |-> c.to,
            status |-> IF c.op = "acceptRequest" THEN "accepted" ELSE "rejected"])
     /\ nextFriendingId' = nextFriendingId + 1
     /\ procs' = [procs EXCEPT ![p].pc =
                    IF c.pc = "insertBoth" THEN "insertEdge" ELSE "done"]
     /\ UNCHANGED friends
     /\ UNCHANGED notRaceVars

\* addFriend: this.friends.createOne, the other call given to Promise.all
Race_addFriend(p) ==
  LET c == procs[p]
  IN /\ c.pc \in {"insertBoth", "insertEdge"}
     /\ nextFriendingId <= MaxRaceIds
     /\ friends' = addFriend(friends, nextFriendingId, c.from, c.to)
     /\ nextFriendingId' = nextFriendingId + 1
     /\ procs' = [procs EXCEPT ![p].pc =
                    IF c.pc = "insertBoth" THEN "insertRow" ELSE "done"]
     /\ UNCHANGED requests
     /\ UNCHANGED notRaceVars

NextRace ==
  \/ \E p \in Procs, op \in RaceOps, pair \in RacePairs :
       Race_start(p, op, pair[1], pair[2])
  \/ \E p \in Procs : Race_assertNotFriends(p)
  \/ \E p \in Procs : Race_readPending(p)
  \/ \E p \in Procs : Race_createPending(p)
  \/ \E p \in Procs : Race_removePendingRequest(p)
  \/ \E p \in Procs : Race_insertRow(p)
  \/ \E p \in Procs : Race_addFriend(p)

(***************************************************************************)
(* Labelling                                                               *)
(***************************************************************************)
\* the last call without its result and its predecessor
Brief(c) == [k \in DOMAIN c \ {"prev", "ret"} |-> c[k]]

LabellingCall(op, resource, label, user, err, ret) ==
  [op |-> op, resource |-> resource, label |-> label, user |-> user,
   err |-> err, ret |-> ret, prev |-> Brief(call)]

LabelFilter(label, user) == {[label |-> {label}, user |-> {user}]}

assertLabelExists(coll, label, user) ==
  IF readOne(coll, LabelFilter(label, user)) = Null THEN "NotFound" ELSE "ok"

assertLabelDoesNotExist(coll, label, user) ==
  IF readOne(coll, LabelFilter(label, user)) # Null THEN "NotAllowed" ELSE "ok"

\* !result?.resources.has(resource)
assertResourceExists(coll, label, resource, user) ==
  IF assertLabelExists(coll, label, user) # "ok" THEN "NotFound"
  ELSE IF resource \notin readOne(coll, LabelFilter(label, user)).resources
       THEN "NotFound"
  ELSE "ok"

\* result?.resources.has(resource)
assertResourceDoesNotExist(coll, label, resource, user) ==
  IF assertLabelExists(coll, label, user) # "ok" THEN "NotFound"
  ELSE IF resource \in readOne(coll, LabelFilter(label, user)).resources
       THEN "NotAllowed"
  ELSE "ok"

Labelling_register(label, user) ==
  LET err == assertLabelDoesNotExist(labels, label, user) IN
  /\ err = "ok" => nextLabelId <= MaxLabelIds
  /\ IF err = "ok"
     THEN /\ labels' = createOne(labels, nextLabelId,
                                 [user |-> user, label |-> label, resources |-> {}])
          /\ nextLabelId' = nextLabelId + 1
     ELSE UNCHANGED labellingVars
  /\ call' = LabellingCall("Labelling.register", 0, label, user, err, {})
  /\ UNCHANGED notLabellingVars

Labelling_unregister(label, user) ==
  LET err == assertLabelExists(labels, label, user) IN
  /\ IF err = "ok"
     THEN labels' = deleteOne(labels, LabelFilter(label, user))
     ELSE labels' = labels
  /\ call' = LabellingCall("Labelling.unregister", 0, label, user, err, {})
  /\ UNCHANGED nextLabelId
  /\ UNCHANGED notLabellingVars

Labelling_lookup(label, user) ==
  /\ call' = LabellingCall("Labelling.lookup", 0, label, user,
                           assertLabelExists(labels, label, user), {})
  /\ UNCHANGED labellingVars
  /\ UNCHANGED notLabellingVars

\* add, first definition.  _label is the object readOne returned; the
\* resource is added to that object's set and the method ends without a
\* store call, so the collection keeps the document it had.
Labelling_add(resource, label, user) ==
  LET e1 == assertLabelExists(labels, label, user)
      err == IF e1 # "ok" THEN e1
             ELSE assertResourceDoesNotExist(labels, label, resource, user)
      _label == readOne(labels, LabelFilter(label, user))
      local == IF err = "ok"
               THEN [_label EXCEPT !.resources = @ \cup {resource}]
               ELSE _label
  IN /\ call' = LabellingCall("Labelling.add", resource, label, user, err, {})
     /\ labels' = labels
     /\ UNCHANGED nextLabelId
     /\ UNCHANGED notLabellingVars

\* add, second definition: the second read filters on a field resource,
\* which a LabelDoc does not have; again the set of the returned object is
\* changed and nothing is written
Labelling_add2(resource, label, user) ==
  LET _label == readOne(labels, LabelFilter(label, user))
      e1 == assertDoesExist(_label)
      err == IF e1 # "ok" THEN e1
             ELSE assertDoesNotExist(
                    readOne(labels, {[label |-> {label}, resource |-> {resource},
                                      user |-> {user}]}))
      local == IF err = "ok"
               THEN [_label EXCEPT !.resources = @ \cup {resource}]
               ELSE _label
  IN /\ call' = LabellingCall("Labelling.add2", resource, label, user, err, {})
     /\ labels' = labels
     /\ UNCHANGED nextLabelId
     /\ UNCHANGED notLabellingVars

\* remove: the resource is deleted from the set of the returned object and
\* nothing is written
Labelling_remove(resource, label, user) ==
  LET e1 == assertLabelExists(labels, label, user)
      err == IF e1 # "ok" THEN e1
             ELSE assertResourceExists(labels, label, resource, user)
      _label == readOne(labels, LabelFilter(label, user))
      local == IF err = "ok"
               THEN [_label EXCEPT !.resources = @ \ {resource}]
               ELSE _label
  IN /\ call' = LabellingCall("Labelling.remove", resource, label, user, err, {})
     /\ labels' = labels
     /\ UNCHANGED nextLabelId
     /\ UNCHANGED notLabellingVars

\* the labels, of any user, whose set has the resource
LabelsOf(coll, resource) ==
  LET all == readMany(coll, {<<>>})
  IN {all[i].label : i \in {j \in 1..Len(all) : resource \in all[j].resources}}

Labelling_get(resource) ==
  /\ call' = LabellingCall("Labelling.get", resource, "", 0, "ok",
                           LabelsOf(labels, resource))
  /\ UNCHANGED labellingVars
  /\ UNCHANGED notLabellingVars

(***************************************************************************)
(* Sourcing                                                                *)
(***************************************************************************)
\* both DocCollections are made with the same collection name
sources == sourcingColl
content == sourcingColl

SourcingCall(op, id, target, uri, user, err, ret) ==
  [op |-> op, id |-> id, target |-> target, uri |-> uri, user |-> user,
   err |-> err, ret |-> ret]

\* ObjectId.equals
equals(a, b) == toString(a) = toString(b)

assertUserOwns(source, user) ==
  IF ~equals(source.user, user) THEN "NotAllowed" ELSE "ok"

\* throws SourceNotAllowedError when nothing matches
assertSourceExists(coll, filters) ==
  IF readOne(coll, filters) = Null THEN "NotAllowed" ELSE "ok"

\* throws SourceNotFoundError when a document matches
assertSourceDoesNotExist(coll, filters) ==
  IF readOne(coll, filters) # Null THEN "NotFound" ELSE "ok"

\* the filter is { target, uri, user }; the document's field is path_uri
Sourcing_register(target, uri, user) ==
  LET err == assertSourceDoesNotExist(sources,
               {[target |-> {target}, uri |-> {uri}, user |-> {user}]})
  IN /\ err = "ok" => nextSourcingId <= MaxSourcingIds
     /\ IF err = "ok"
        THEN /\ sourcingColl' = createOne(sources, nextSourcingId,
                    [target |-> target, path_uri |-> uri, user |-> user,
                     contentIDs |-> {}])
             /\ nextSourcingId' = nextSourcingId + 1
        ELSE UNCHANGED sourcingVars
     /\ call' = SourcingCall("Sourcing.register", 0, target, uri, user, err,
                             IF err = "ok" THEN nextSourcingId ELSE 0)
     /\ UNCHANGED notSourcingVars

Sourcing_unregister(sourceID, user) ==
  LET result == readOne(sources, IdFilter(sourceID))
      err == IF result = Null THEN "NotFound" ELSE assertUserOwns(result, user)
  IN /\ IF err = "ok"
        THEN sourcingColl' = deleteOne(sources, IdFilter(sourceID))
        ELSE sourcingColl' = sourcingColl
     /\ call' = SourcingCall("Sourcing.unregister", sourceID, "", "", user, err, 0)
     /\ UNCHANGED nextSourcingId
     /\ UNCHANGED notSourcingVars

\* lookupOne / lookupSource: the second read filters on { sourceID, user },
\* and sourceID is not a field of SourceDoc
Sourcing_lookupOne(sourceID, user) ==
  LET e1 == assertSourceExists(sources, IdFilter(sourceID))
      result == readOne(sources, {[sourceID |-> {sourceID}, user |-> {user}]})
      err == IF e1 # "ok" THEN e1
             ELSE IF result = Null THEN "NotFound"
             ELSE assertUserOwns(result, user)
  IN /\ call' = SourcingCall("Sourcing.lookupOne", sourceID, "", "", user, err,
                             IF err = "ok" THEN result._id ELSE 0)
     /\ UNCHANGED sourcingVars
     /\ UNCHANGED notSourcingVars

\* SourcingConcept.Get throws NotImplementedError
Sourcing_update(sourceID) ==
  LET e1 == assertSourceExists(sources, IdFilter(sourceID))
      err == IF e1 # "ok" THEN e1 ELSE "NotImplemented"
  IN /\ call' = SourcingCall("Sourcing.update", sourceID, "", "", 0, err, 0)
     /\ UNCHANGED sourcingVars
     /\ UNCHANGED notSourcingVars

\* get reads this.content, the collection of the same name as this.sources
Sourcing_get(contentID, user) ==
  LET result == readOne(content, IdFilter(contentID))
      err == IF result = Null THEN "NotFound" ELSE assertUserOwns(result, user)
  IN /\ call' = SourcingCall("Sourcing.get", contentID, "", "", user, err,
                             IF err = "ok" THEN result._id ELSE 0)
     /\ UNCHANGED sourcingVars
     /\ UNCHANGED notSourcingVars

(***************************************************************************)
(* Templating                                                              *)
(***************************************************************************)
\* both DocCollections are made with the same collection name
templates == templatingColl
renders == templatingColl

TemplatingCall(op, id, user, err, ret) ==
  [op |-> op, id |-> id, user |-> user, err |-> err, ret |-> ret]

Templating_add(template, type, resources, user) ==
  /\ nextTemplatingId <= MaxTemplatingIds
  /\ templatingColl' = createOne(templates, nextTemplatingId,
         [user |-> user, type |-> type, resources |-> resources,
          template |-> template])
  /\ nextTemplatingId' = nextTemplatingId + 1
  /\ call' = TemplatingCall("Templating.add", template, user, "ok", nextTemplatingId)
  /\ UNCHANGED notTemplatingVars

Templating_remove(template, user) ==
  LET request == readOne(templates, IdFilter(template))
      err == IF request = Null THEN "NotFound"
             ELSE IF ~equals(request.user, user) THEN "NotAllowed"
             ELSE "ok"
  IN /\ IF err = "ok"
        THEN templatingColl' = deleteOne(templates, IdFilter(template))
        ELSE templatingColl' = templatingColl
     /\ call' = TemplatingCall("Templating.remove", template, user, err, 0)
     /\ UNCHANGED nextTemplatingId
     /\ UNCHANGED notTemplatingVars

\* mutant: the existence check is left out
assertTemplateExists_never(coll, template) == "ok"

assertTemplateExists(coll, template) ==
  IF readOne(coll, IdFilter(template)) = Null THEN "NotFound" ELSE "ok"

\* TemplatingConcept.Render throws NotImplementedError
Templating_render(template, data) ==
  LET e1 == assertTemplateExists(templates, template)
      err == IF e1 # "ok" THEN e1 ELSE "NotImplemented"
  IN /\ call' = TemplatingCall("Templating.render", template, 0, err, 0)
     /\ UNCHANGED templatingVars
     /\ UNCHANGED notTemplatingVars

\* getRender reads this.renders, the collection of the same name as
\* this.templates
Templating_getRender(render) ==
  LET request == readOne(renders, IdFilter(render))
      err == IF request = Null THEN "NotFound" ELSE "ok"
  IN /\ call' = TemplatingCall("Templating.getRender", render, 0, err,
                               IF err = "ok" THEN request._id ELSE 0)
     /\ UNCHANGED templatingVars
     /\ UNCHANGED notTemplatingVars

(***************************************************************************)
(* Sorting                                                                 *)
(***************************************************************************)
SortingCall(op, id, err) == [op |-> op, id |-> id, err |-> err]

\* SortingConcept.Sort throws NotImplementedError
Sorting_sort(sortId, feed) ==
  LET sort == readOne(sorts, IdFilter(sortId))
      err == IF sort = Null THEN "NotFound" ELSE "NotImplemented"
  IN /\ call' = SortingCall("Sorting.sort", sortId, err)
     /\ UNCHANGED sortingVars
     /\ UNCHANGED notSortingVars

SortingOpCall(op, id, label, weight, user, err, ret) ==
  [op |-> op, id |-> id, label |-> label, weight |-> weight, user |-> user,
   err |-> err, ret |-> ret]

\* Map<Label, number>: the entries <<key, value>> in insertion order
MapKeys(m) == {m[i][1] : i \in 1..Len(m)}

MapHas(m, k) == k \in MapKeys(m)

\* the value of the first entry with key k
MapGet(m, k) ==
  m[CHOOSE i \in 1..Len(m) :
      m[i][1] = k /\ \A j \in 1..(i - 1) : m[j][1] # k][2]

\* set replaces the value of a present key in place and appends a new key
MapSet(m, k, v) ==
  IF MapHas(m, k)
  THEN [i \in 1..Len(m) |-> IF m[i][1] = k THEN <<k, v>> ELSE m[i]]
  ELSE Append(m, <<k, v>>)

MapDelete(m, k) == SelectSeq(m, LAMBDA e : e[1] # k)

\* mutant: the check that the label is not yet in the mapping is left out
Sorting_add_noCheck(sortId, label, weight, user) ==
  LET sort == readOne(sorts, IdFilter(sortId))
      err == IF sort = Null THEN "NotFound" ELSE "ok"
  IN /\ IF err = "ok"
        THEN sorts' = partialUpdateOne(sorts, IdFilter(sortId),
                        [user |-> user,
                         weights |-> MapSet(sort.weights, label, weight)])
        ELSE sorts' = sorts
     /\ call' = SortingOpCall("Sorting.add", sortId, label, weight, user, err, 0)
     /\ UNCHANGED notSortingVars

Sorting_add(sortId, label, weight, user) ==
  LET sort == readOne(sorts, IdFilter(sortId))
      err == IF sort = Null THEN "NotFound"
             ELSE IF MapHas(sort.weights, label) THEN "NotAllowed"
             ELSE "ok"
  IN /\ IF err = "ok"
        THEN sorts' = partialUpdateOne(sorts, IdFilter(sortId),
                        [user |-> user,
                         weights |-> MapSet(sort.weights, label, weight)])
        ELSE sorts' = sorts
     /\ call' = SortingOpCall("Sorting.add", sortId, label, weight, user, err, 0)
     /\ UNCHANGED notSortingVars

Sorting_remove(sortId, label) ==
  LET sort == readOne(sorts, IdFilter(sortId))
      err == IF sort = Null THEN "NotFound"
             ELSE IF ~MapHas(sort.weights, label) THEN "NotFound"
             ELSE "ok"
  IN /\ IF err = "ok"
        THEN sorts' = partialUpdateOne(sorts, IdFilter(sortId),
                        [weights |-> MapDelete(sort.weights, label)])
        ELSE sorts' = sorts
     /\ call' = SortingOpCall("Sorting.remove", sortId, label, 0, 0, err, 0)
     /\ UNCHANGED notSortingVars

Sorting_set(sortId, label, weight, user) ==
  LET sort == readOne(sorts, IdFilter(sortId))
      err == IF sort = Null THEN "NotFound"
             ELSE IF ~MapHas(sort.weights, label) THEN "NotAllowed"
             ELSE "ok"
  IN /\ IF err = "ok"
        THEN sorts' = partialUpdateOne(sorts, IdFilter(sortId),
                        [weights |-> MapSet(sort.weights, label, weight)])
        ELSE sorts' = sorts
     /\ call' = SortingOpCall("Sorting.set", sortId, label, weight, user, err, 0)
     /\ UNCHANGED notSortingVars

Sorting_get(sortId, label) ==
  LET sort == readOne(sorts, IdFilter(sortId))
      err == IF sort = Null THEN "NotFound"
             ELSE IF ~MapHas(sort.weights, label) THEN "NotAllowed"
             ELSE "ok"
  IN /\ call' = SortingOpCall("Sorting.get", sortId, label, 0, 0, err,
                              IF err = "ok" THEN MapGet(sort.weights, label) ELSE 0)
     /\ UNCHANGED sortingVars
     /\ UNCHANGED notSortingVars

(***************************************************************************)
(* Routes                                                                  *)
(***************************************************************************)
RoutesCall(op, label, weight, user, err) ==
  [op |-> op, label |-> label, weight |-> weight, user |-> user, err |-> err]

\* POST /label/:label/:weight: Labelling.register, then Sorting.add with the
\* id of the new label as the id of the weight profile
Routes_newLabel(label, weight, user) ==
  LET e1 == assertLabelDoesNotExist(labels, label, user)
      labelId == nextLabelId
      sort == readOne(sorts, IdFilter(labelId))
      e2 == IF sort = Null THEN "NotFound"
            ELSE IF MapHas(sort.weights, label) THEN "NotAllowed"
            ELSE "ok"
      err == IF e1 # "ok" THEN e1 ELSE e2
  IN /\ e1 = "ok" => nextLabelId <= MaxLabelIds
     /\ IF e1 = "ok"
        THEN /\ labels' = createOne(labels, labelId,
                    [user |-> user, label |-> label, resources |-> {}])
             /\ nextLabelId' = nextLabelId + 1
        ELSE UNCHANGED labellingVars
     /\ IF err = "ok"
        THEN sorts' = partialUpdateOne(sorts, IdFilter(labelId),
                        [user |-> user,
                         weights |-> MapSet(sort.weights, label, weight)])
        ELSE sorts' = sorts
     /\ call' = RoutesCall("Routes.newLabel", label, weight, user, err)
     /\ UNCHANGED <<authVars, friendingVars, sourcingVars, templatingVars,
                    postingVars, raceVars>>

(***************************************************************************)
(* Router: the status code of a failed action                              *)
(***************************************************************************)
RouterCall(op, class, type, args, err, status) ==
  [op |-> op, class |-> class, type |-> type, args |-> args, err |-> err,
   status |-> status]

\* public static readonly HTTP_CODE of the five domain error types
StaticCode(type) ==
  CASE type = "BadValues" -> 400
    [] type = "Unauthenticated" -> 401
    [] type = "NotAllowed" -> 403
    [] type = "NotFound" -> 404
    [] type = "NotImplemented" -> 501
    [] OTHER -> 500

\* new FormattableError(...): the instance field HTTP_CODE is 500; the
\* subclasses declare HTTP_CODE as a static member only
FormattableError(class, type, args) ==
  [class |-> class, type |-> type, args |-> args, HTTP_CODE |-> 500]

\* an error that is no FormattableError has no HTTP_CODE
PlainError(class) == [class |-> class, type |-> "none", args |-> <<>>]

formatWith(e, args) ==
  [class |-> "FormattableError", type |-> e.type, args |-> args,
   HTTP_CODE |-> e.HTTP_CODE]

\* the classes Router.registerError is called with
FriendErrors == {"FriendRequestAlreadyExistsError", "FriendNotFoundError",
                 "FriendRequestNotFoundError", "AlreadyFriendsError"}
FilterErrors == {"FeedNotFoundError", "FeedNotAllowedError",
                 "LabelNotFoundError", "LabelNotAllowedError",
                 "SourceNotFoundError", "SourceNotAllowedError",
                 "TemplateNotFoundError", "SortNotFoundError"}
errorHandlers == FriendErrors \cup FilterErrors

\* getUserById: the error it raises
getUserByIdErr(coll, _id) ==
  assertDoesExist(readOne(coll, {[_id |-> {_id}]}))

getUserById(coll, _id) == readOne(coll, {[_id |-> {_id}]})

\* the enrichment handler registered for the class of e
handler(e) ==
  IF e.class \in FriendErrors
  THEN IF \E i \in 1..Len(e.args) : getUserByIdErr(users, e.args[i]) # "ok"
       THEN PlainError("thrown in handler")
       ELSE formatWith(e, [i \in 1..Len(e.args) |->
                             getUserById(users, e.args[i]).username])
  ELSE formatWith(e, e.args)

\* an error thrown by the handler is caught and wrapped in a new Error
handleError(err) ==
  IF err.class \in errorHandlers
  THEN IF handler(err).class = "thrown in handler"
       THEN PlainError("Error")
       ELSE handler(err)
  ELSE err

\* res.status(error.HTTP_CODE ?? 500)
StatusOf(error) ==
  IF "HTTP_CODE" \in DOMAIN error THEN error.HTTP_CODE ELSE 500

\* the catch branch of the handler makeRoute builds, for an action that threw e
Router_makeRoute(e) ==
  /\ call' = RouterCall("Router.makeRoute", e.class, e.type, e.args, e.type,
                        StatusOf(handleError(e)))
  /\ UNCHANGED authVars
  /\ UNCHANGED notAuthVars

\* the errors the concept actions throw
ErrorTypeOf(class) ==
  CASE class \in {"FriendRequestAlreadyExistsError", "AlreadyFriendsError",
                  "FeedNotAllowedError", "LabelNotAllowedError",
                  "SourceNotAllowedError", "UserNotAllowedError",
                  "NotAllowedError"} -> "NotAllowed"
    [] class \in {"FriendNotFoundError", "FriendRequestNotFoundError",
                  "FeedNotFoundError", "LabelNotFoundError",
                  "SourceNotFoundError", "TemplateNotFoundError",
                  "SortNotFoundError", "UserNotFoundError",
                  "NotFoundError"} -> "NotFound"
    [] class = "BadValuesError" -> "BadValues"
    [] class = "UnauthenticatedError" -> "Unauthenticated"
    [] class = "NotImplementedError" -> "NotImplemented"
    [] OTHER -> "none"

UnhandledErrors == {"UserNotFoundError", "UserNotAllowedError",
                    "NotFoundError", "NotAllowedError", "BadValuesError",
                    "UnauthenticatedError", "NotImplementedError"}

ThrownErrors ==
  {FormattableError(c, ErrorTypeOf(c), <<u1, u2>>) :
     c \in FriendErrors, u1 \in UserIds, u2 \in UserIds}
  \cup {FormattableError(c, ErrorTypeOf(c), <<id>>) :
          c \in FilterErrors \cup UnhandledErrors, id \in UserIds}
  \cup {PlainError("TypeError")}

(***************************************************************************)
(* Responses                                                               *)
(***************************************************************************)
ResponseCall(op, arg, err, body) ==
  [op |-> op, arg |-> arg, err |-> err, body |-> body]

Responses_post(post) ==
  LET err == getUserByIdErr(users, post.author)
  IN /\ call' = ResponseCall("Responses.post", <<post>>, err,
          IF err = "ok"
          THEN <<[post EXCEPT !.author = getUserById(users, post.author).username]>>
          ELSE <<>>)
     /\ UNCHANGED authVars
     /\ UNCHANGED notAuthVars

Responses_posts(posts) ==
  LET authors == lookupUsernames(users, [i \in 1..Len(posts) |-> posts[i].author])
  IN /\ call' = ResponseCall("Responses.posts", posts, "ok",
          [i \in 1..Len(posts) |-> [posts[i] EXCEPT !.author = authors[i]]])
     /\ UNCHANGED authVars
     /\ UNCHANGED notAuthVars

\* mutant: the receiver's name is read at the sender's index
Responses_friendRequests_sameIndex(reqs) ==
  LET from == [i \in 1..Len(reqs) |-> reqs[i].from]
      to == [i \in 1..Len(reqs) |-> reqs[i].to]
      usernames == lookupUsernames(users, from \o to)
  IN /\ call' = ResponseCall("Responses.friendRequests", reqs, "ok",
          [i \in 1..Len(reqs) |->
             [reqs[i] EXCEPT !.from = usernames[i], !.to = usernames[i]]])
     /\ UNCHANGED authVars
     /\ UNCHANGED notAuthVars

Responses_friendRequests(reqs) ==
  LET from == [i \in 1..Len(reqs) |-> reqs[i].from]
      to == [i \in 1..Len(reqs) |-> reqs[i].to]
      usernames == lookupUsernames(users, from \o to)
  IN /\ call' = ResponseCall("Responses.friendRequests", reqs, "ok",
          [i \in 1..Len(reqs) |->
             [reqs[i] EXCEPT !.from = usernames[i],
                             !.to = usernames[i + Len(reqs)]]])
     /\ UNCHANGED authVars
     /\ UNCHANGED notAuthVars

(***************************************************************************)
(* Posting                                                                 *)
(***************************************************************************)
PostingCall(op, name, feedId, postId, err, ret) ==
  [op |-> op, name |-> name, feedId |-> feedId, postId |-> postId,
   err |-> err, ret |-> ret]

\* new DocCollection(name): the handle of the database collection of that
\* name; the database keeps one collection per name
DocCollection(name) == name

\* the documents of the collection a handle stands for
Docs(handle) == postColls[handle]

Posting_register(name) ==
  LET err == IF readOne(feeds, {[name |-> {name}]}) # Null
             THEN "NotAllowed" ELSE "ok"
  IN /\ err = "ok" => nextPostingId <= MaxPostingIds
     /\ IF err = "ok"
        THEN /\ feeds' = createOne(feeds, nextPostingId,
                    [name |-> name, posts |-> DocCollection(name)])
             /\ nextPostingId' = nextPostingId + 1
        ELSE UNCHANGED <<feeds, nextPostingId>>
     /\ call' = PostingCall("Posting.register", name, 0, 0, err,
                            IF err = "ok" THEN {nextPostingId} ELSE {})
     /\ UNCHANGED postColls
     /\ UNCHANGED notPostingVars

Posting_unregister(id) ==
  LET err == IF readOne(feeds, IdFilter(id)) = Null THEN "NotFound" ELSE "ok"
  IN /\ IF err = "ok"
        THEN feeds' = deleteOne(feeds, IdFilter(id))
        ELSE feeds' = feeds
     /\ call' = PostingCall("Posting.unregister", "", id, 0, err, {})
     /\ UNCHANGED <<postColls, nextPostingId>>
     /\ UNCHANGED notPostingVars

Posting_post(feedId, author, content_) ==
  LET feed == readOne(feeds, IdFilter(feedId))
      err == IF feed = Null THEN "NotFound" ELSE "ok"
  IN /\ err = "ok" => nextPostingId <= MaxPostingIds
     /\ IF err = "ok"
        THEN /\ postColls' = [postColls EXCEPT ![feed.posts] =
                    createOne(Docs(feed.posts), nextPostingId,
                              [author |-> author, content |-> content_])]
             /\ nextPostingId' = nextPostingId + 1
        ELSE UNCHANGED <<postColls, nextPostingId>>
     /\ call' = PostingCall("Posting.post", "", feedId, 0, err,
                            IF err = "ok" THEN {nextPostingId} ELSE {})
     /\ UNCHANGED feeds
     /\ UNCHANGED notPostingVars

\* the delete goes to this.feeds, with the post's id
Posting_unpost(feedId, postId) ==
  LET feed == readOne(feeds, IdFilter(feedId))
      err == IF feed = Null THEN "NotFound"
             ELSE IF readOne(Docs(feed.posts), IdFilter(postId)) = Null
             THEN "NotFound" ELSE "ok"
  IN /\ IF err = "ok"
        THEN feeds' = deleteOne(feeds, IdFilter(postId))
        ELSE feeds' = feeds
     /\ call' = PostingCall("Posting.unpost", "", feedId, postId, err, {})
     /\ UNCHANGED <<postColls, nextPostingId>>
     /\ UNCHANGED notPostingVars

\* the ids of the posts get returns
PostsOf(feed) == {d._id : d \in {Docs(feed.posts)[i] : i \in 1..Len(Docs(feed.posts))}}

Posting_get(feedId) ==
  LET feed == readOne(feeds, IdFilter(feedId))
      err == IF feed = Null THEN "NotFound" ELSE "ok"
  IN /\ call' = PostingCall("Posting.get", "", feedId, 0, err,
                            IF err = "ok" THEN PostsOf(feed) ELSE {})
     /\ UNCHANGED postingVars
     /\ UNCHANGED notPostingVars

NextPosting ==
  \/ \E name \in FeedNames : Posting_register(name)
  \/ \E id \in PostingIds : Posting_unregister(id)
  \/ \E feedId \in PostingIds, author \in Authors, c \in Contents :
       Posting_post(feedId, author, c)
  \/ \E feedId \in PostingIds, postId \in PostingIds :
       Posting_unpost(feedId, postId)
  \/ \E feedId \in PostingIds : Posting_get(feedId)

Init ==
  /\ users = <<>>
  /\ nextUserId = 1
  /\ requests = <<>>
  /\ friends = <<>>
  /\ nextFriendingId = 1
  /\ labels = <<>>
  /\ nextLabelId = 1
  /\ sourcingColl = <<>>
  /\ nextSourcingId = 1
  /\ templatingColl = <<>>
  /\ nextTemplatingId = 1
  /\ sorts = <<>>
  /\ feeds = <<>>
  /\ postColls = [n \in FeedNames |-> <<>>]
  /\ nextPostingId = 1
  /\ procs = [p \in Procs |-> Idle]
  /\ call = [op |-> "none", err |-> "ok"]

\* the (from, to) arguments of the Friending calls: two pairs sharing user 1,
\* in both directions, and a user with itself
FriendPairs == {<<1, 2>>, <<2, 1>>, <<1, 3>>, <<3, 1>>, <<1, 1>>}
NextFriending ==
  \/ \E p \in FriendPairs : createRequest(p[1], p[2])
  \/ \E p \in FriendPairs : acceptRequest(p[1], p[2])
  \/ \E p \in FriendPairs : rejectRequest(p[1], p[2])
  \/ \E p \in FriendPairs : removeRequest(p[1], p[2])
  \/ \E p \in FriendPairs : removeFriend(p[1], p[2])

SpecFriending == Init /\ [][NextFriending]_vars

NextLabelling ==
  \/ \E label \in Labels, user \in LabelUsers : Labelling_register(label, user)
  \/ \E label \in Labels, user \in LabelUsers : Labelling_unregister(label, user)
  \/ \E label \in Labels, user \in LabelUsers : Labelling_lookup(label, user)
  \/ \E resource \in Resources, label \in Labels, user \in LabelUsers :
       Labelling_add(resource, label, user)
  \/ \E resource \in Resources, label \in Labels, user \in LabelUsers :
       Labelling_add2(resource, label, user)
  \/ \E resource \in Resources, label \in Labels, user \in LabelUsers :
       Labelling_remove(resource, label, user)
  \/ \E resource \in Resources : Labelling_get(resource)

SpecLabelling == Init /\ [][NextLabelling]_vars

\* no action of the concept creates a weight profile: the sorts collection
\* is empty, or holds a profile put there from outside
ExternalSorts == {<<>>, <<[_id |-> 11, user |-> 1, weights |-> <<>>]>>}

InitContent ==
  /\ users = <<>>
  /\ nextUserId = 1
  /\ requests = <<>>
  /\ friends = <<>>
  /\ nextFriendingId = 1
  /\ labels = <<>>
  /\ nextLabelId = 1
  /\ sourcingColl = <<>>
  /\ nextSourcingId = 1
  /\ templatingColl = <<>>
  /\ nextTemplatingId = 1
  /\ sorts \in ExternalSorts
  /\ feeds = <<>>
  /\ postColls = [n \in FeedNames |-> <<>>]
  /\ nextPostingId = 1
  /\ procs = [p \in Procs |-> Idle]
  /\ call = [op |-> "none", err |-> "ok"]

NextSourcing ==
  \/ \E target \in SourceTargets, uri \in Uris, user \in ContentUsers :
       Sourcing_register(target, uri, user)
  \/ \E sourceID \in SourcingIds, user \in ContentUsers :
       Sourcing_unregister(sourceID, user)
  \/ \E sourceID \in SourcingIds, user \in ContentUsers :
       Sourcing_lookupOne(sourceID, user)
  \/ \E sourceID \in SourcingIds : Sourcing_update(sourceID)

SpecSourcing == Init /\ [][NextSourcing]_vars

\* the three unimplemented algorithms with the actions that fill and empty
\* the collections they read
NextUnimplemented ==
  \/ \E user \in ContentUsers : Sourcing_register("URL", "u", user)
  \/ \E sourceID \in SourcingIds, user \in ContentUsers :
       Sourcing_unregister(sourceID, user)
  \/ \E sourceID \in SourcingIds : Sourcing_update(sourceID)
  \/ \E user \in ContentUsers : Templating_add(7, "Markdown", {"Text"}, user)
  \/ \E template \in TemplatingIds, user \in ContentUsers :
       Templating_remove(template, user)
  \/ \E template \in TemplatingIds, data \in RenderData :
       Templating_render(template, data)
  \/ \E sortId \in SortIds, feed \in Feeds : Sorting_sort(sortId, feed)

SpecUnimplemented == InitContent /\ [][NextUnimplemented]_vars

\* the documents the response formatting is given
PostDocs == {[_id |-> 9, author |-> a, content |-> 7] : a \in UserIds}
RequestDocs == {[_id |-> 9, from |-> f, to |-> t, status |-> "pending"] :
                  f \in UserIds, t \in UserIds}
PostLists == {<<>>} \cup {<<p>> : p \in PostDocs}
               \cup {<<p, q>> : p \in PostDocs, q \in PostDocs}
RequestLists == {<<>>} \cup {<<r>> : r \in RequestDocs}

NextResponses ==
  \/ \E username \in {"a", "b"} : register(username, "p")
  \/ \E _id \in UserIds : delete(_id)
  \/ \E e \in ThrownErrors : Router_makeRoute(e)
  \/ \E post \in PostDocs : Responses_post(post)
  \/ \E posts \in PostLists : Responses_posts(posts)
  \/ \E reqs \in RequestLists : Responses_friendRequests(reqs)

SpecResponses == Init /\ [][NextResponses]_vars

NextSorting ==
  \/ \E sortId \in SortIds, label \in Labels, weight \in Weights, user \in LabelUsers :
       Sorting_add(sortId, label, weight, user)
  \/ \E sortId \in SortIds, label \in Labels : Sorting_remove(sortId, label)
  \/ \E sortId \in SortIds, label \in Labels, weight \in Weights, user \in LabelUsers :
       Sorting_set(sortId, label, weight, user)
  \/ \E sortId \in SortIds, label \in Labels : Sorting_get(sortId, label)

SpecSorting == InitContent /\ [][NextSorting]_vars

SpecRace == Init /\ [][NextRace]_vars

\* the two concepts that keep two kinds of documents
NextKinds ==
  \/ \E target \in SourceTargets, user \in ContentUsers :
       Sourcing_register(target, "u", user)
  \/ \E sourceID \in SourcingIds, user \in ContentUsers :
       Sourcing_unregister(sourceID, user)
  \/ \E contentID \in SourcingIds, user \in ContentUsers :
       Sourcing_get(contentID, user)
  \/ \E user \in ContentUsers : Templating_add(7, "Markdown", {"Text"}, user)
  \/ \E template \in TemplatingIds, user \in ContentUsers :
       Templating_remove(template, user)
  \/ \E render \in TemplatingIds : Templating_getRender(render)

SpecKinds == Init /\ [][NextKinds]_vars

NextRoutes ==
  \/ \E label \in Labels, weight \in Weights, user \in LabelUsers :
       Routes_newLabel(label, weight, user)
  \/ \E label \in Labels, user \in LabelUsers : Labelling_unregister(label, user)
  \/ \E label \in Labels, user \in LabelUsers : Labelling_lookup(label, user)
  \/ \E sortId \in SortIds, label \in Labels : Sorting_get(sortId, label)

SpecRoutes == InitContent /\ [][NextRoutes]_vars

SpecPosting == Init /\ [][NextPosting]_vars

IdLists == UNION {[1..n -> UserIds] : n \in 0..MaxIdList}

NextAuth ==
  \/ \E username \in Usernames, password \in Passwords : register(username, password)
  \/ \E username \in Usernames, password \in Passwords : authenticate(username, password)
  \/ \E _id \in UserIds, username \in Usernames : updateUsername(_id, username)
  \/ \E _id \in UserIds, currentPassword \in Passwords, newPassword \in Passwords :
       updatePassword(_id, currentPassword, newPassword)
  \/ \E _id \in UserIds : delete(_id)
  \/ \E ids \in IdLists : idsToUsernames(ids)

SpecAuth == Init /\ [][NextAuth]_vars

(***************************************************************************)
(* Properties of Authenticating                                            *)
(***************************************************************************)
UsernameHeld(coll, username) ==
  \E i \in 1..Len(coll) : coll[i].username = username

\* C1 as stated: register with a username held by a stored User fails with
\* NotAllowed whatever the password is, and creates no User.
C1_DuplicateAlwaysNotAllowed ==
  [][(call'.op = "register" /\ UsernameHeld(users, call'.username))
       => (call'.err = "NotAllowed" /\ users' = users)]_vars

\* C1 amended: register with a username held by a stored User always fails
\* and creates no User; the error is NotAllowed when username and password
\* are both non-empty and BadValues when either is empty.
C1_DuplicateAlwaysFails ==
  [][(call'.op = "register" /\ UsernameHeld(users, call'.username))
       => /\ call'.err = IF call'.username = "" \/ call'.password = ""
                         THEN "BadValues" ELSE "NotAllowed"
          /\ users' = users
          /\ nextUserId' = nextUserId]_vars

\* a register of a held username with another password was rejected
C1_Witness ==
  /\ call.op = "register"
  /\ call.err = "NotAllowed"
  /\ \E i \in 1..Len(users) :
       users[i].username = call.username /\ users[i].password # call.password

\* C2: no two stored Users have the same username.
C2_UsernamesUnique ==
  \A i, j \in 1..Len(users) :
    i # j => users[i].username # users[j].username

\* several Users are stored and one of them has just been renamed
C2_Witness ==
  /\ Len(users) >= 2
  /\ call.op = "updateUsername"
  /\ call.err = "ok"
  /\ \E i \in 1..Len(users) :
       users[i]._id = call.id /\ users[i].username = call.username

\* C3 as stated: every stored User has a non-empty username and a non-empty
\* password; register with an empty username or password fails with
\* BadValues and creates no User.
C3_CredentialsNonEmpty ==
  /\ \A i \in 1..Len(users) : users[i].username # "" /\ users[i].password # ""
  /\ (call.op = "register" /\ (call.username = "" \/ call.password = ""))
       => (call.err = "BadValues" /\ call.retId = 0)

\* C4 as stated: updatePassword for a stored User whose password equals
\* currentPassword sets the password to newPassword, so that authenticate
\* with the new password finds that User; otherwise it fails with NotFound
\* and changes nothing.
C4_UpdatePasswordChanges ==
  [][call'.op = "updatePassword"
       => IF \E i \in 1..Len(users) :
               users[i]._id = call'.id /\ users[i].password = call'.password
          THEN /\ call'.err = "ok"
               /\ \E i \in 1..Len(users') :
                    /\ users'[i]._id = call'.id
                    /\ users'[i].password = call'.newPassword
          ELSE /\ call'.err = "NotFound"
               /\ users' = users]_vars

\* C5: authenticate returns the id of a stored User matching both fields,
\* fails with NotFound when none matches, and never changes the Users.
C5_Authenticate ==
  [][call'.op = "authenticate"
       => /\ users' = users
          /\ IF \E i \in 1..Len(users) :
                  /\ users[i].username = call'.username
                  /\ users[i].password = call'.password
             THEN /\ call'.err = "ok"
                  /\ \E i \in 1..Len(users) :
                       /\ users[i]._id = call'.retId
                       /\ users[i].username = call'.username
                       /\ users[i].password = call'.password
             ELSE call'.err = "NotFound"]_vars

\* an authenticate succeeded while another User with another password is stored
C5_Witness ==
  /\ call.op = "authenticate"
  /\ call.err = "ok"
  /\ \E i, j \in 1..Len(users) :
       /\ users[i]._id = call.retId
       /\ users[j]._id # call.retId
       /\ users[j].password # call.password

\* C6 as stated: updateUsername fails with NotAllowed if the name is held by
\* a User other than id, leaving every User unchanged; otherwise it is not
\* rejected and the User with that id has the name afterwards.
C6_RejectedOnlyForOthers ==
  [][call'.op = "updateUsername"
       => IF \E i \in 1..Len(users) :
               users[i].username = call'.username /\ users[i]._id # call'.id
          THEN call'.err = "NotAllowed" /\ users' = users
          ELSE /\ call'.err = "ok"
               /\ \A i \in 1..Len(users') :
                    users'[i]._id = call'.id => users'[i].username = call'.username]_vars

\* C6 amended: updateUsername fails with NotAllowed if the name is held by
\* any stored User, the User with that id included, leaving every User
\* unchanged; otherwise it is not rejected, the User with that id has the
\* name afterwards and every other User is unchanged.
C6_RejectedForAnyHolder ==
  [][call'.op = "updateUsername"
       => IF UsernameHeld(users, call'.username)
          THEN call'.err = "NotAllowed" /\ users' = users
          ELSE /\ call'.err = "ok"
               /\ Len(users') = Len(users)
               /\ \A i \in 1..Len(users) :
                    users'[i] = IF users[i]._id = call'.id
                                THEN [users[i] EXCEPT !.username = call'.username]
                                ELSE users[i]]_vars

\* a User asked for the name it already has and was rejected
C6_Witness ==
  /\ call.op = "updateUsername"
  /\ call.err = "NotAllowed"
  /\ \E i \in 1..Len(users) :
       users[i]._id = call.id /\ users[i].username = call.username

RowsBetween(coll, a, b, st) ==
  {i \in 1..Len(coll) :
     /\ coll[i].status = st
     /\ {coll[i].from, coll[i].to} = {a, b}}

\* indices of the rows of status st from a to b
RowsFromTo(coll, a, b, st) ==
  {i \in 1..Len(coll) :
     coll[i].status = st /\ coll[i].from = a /\ coll[i].to = b}

\* indices of the Friendship edges of the unordered pair a, b
EdgesBetween(coll, a, b) ==
  {i \in 1..Len(coll) : {coll[i].user1, coll[i].user2} = {a, b}}

Range(seq) == {seq[i] : i \in 1..Len(seq)}

\* C8: every unordered pair of users has at most one pending request,
\* counting both directions, and a createRequest while one is pending
\* between the two users fails and adds nothing.
C8_OnePendingPerPair ==
  [][/\ \A a, b \in FriendUsers :
          Cardinality(RowsBetween(requests', a, b, "pending")) <= 1
     /\ (call'.op = "createRequest"
           /\ RowsBetween(requests, call'.from, call'.to, "pending") # {})
          => (call'.err = "NotAllowed" /\ requests' = requests)]_vars

\* a createRequest was rejected because of a pending request in the
\* opposite direction
C8_Witness ==
  /\ call.op = "createRequest"
  /\ call.err = "NotAllowed"
  /\ call.from # call.to
  /\ RowsFromTo(requests, call.to, call.from, "pending") # {}
  /\ EdgesBetween(friends, call.from, call.to) = {}

\* C9: acceptRequest with a pending request from->to removes that row, adds
\* one accepted row and one Friendship edge, which is then the only edge of
\* the pair, and each user is in the other's getFriends; without such a
\* request it fails with NotFound and changes neither collection.
C9_AcceptRequest ==
  [][call'.op = "acceptRequest"
       => LET f == call'.from
              t == call'.to
          IN IF RowsFromTo(requests, f, t, "pending") # {}
             THEN /\ call'.err = "ok"
                  /\ Cardinality(RowsFromTo(requests', f, t, "pending"))
                       = Cardinality(RowsFromTo(requests, f, t, "pending")) - 1
                  /\ Cardinality(RowsFromTo(requests', f, t, "accepted"))
                       = Cardinality(RowsFromTo(requests, f, t, "accepted")) + 1
                  /\ Len(requests') = Len(requests)
                  /\ Len(friends') = Len(friends) + 1
                  /\ Cardinality(EdgesBetween(friends', f, t)) = 1
                  /\ t \in Range(getFriends(friends', f))
                  /\ f \in Range(getFriends(friends', t))
             ELSE /\ call'.err = "NotFound"
                  /\ requests' = requests
                  /\ friends' = friends]_vars

\* a request was accepted while another Friendship was already stored
C9_Witness ==
  /\ call.op = "acceptRequest"
  /\ call.err = "ok"
  /\ Len(friends) >= 2
  /\ friends[Len(friends)].user1 = call.from
  /\ friends[Len(friends)].user2 = call.to
  /\ RowsFromTo(requests, call.from, call.to, "accepted") # {}

\* C10: there is at most one Friendship edge per unordered pair of users
\* and no edge joins a user to itself.
C10_OneEdgePerPair ==
  /\ \A a, b \in FriendUsers : Cardinality(EdgesBetween(friends, a, b)) <= 1
  /\ \A i \in 1..Len(friends) : friends[i].user1 # friends[i].user2

\* two users are friends and a request between them, sent by the one stored
\* as user2, has just been refused
C10_Witness ==
  /\ call.op = "createRequest"
  /\ call.err = "NotAllowed"
  /\ \E i \in 1..Len(friends) :
       friends[i].user1 = call.to /\ friends[i].user2 = call.from

\* C11 as stated: createRequest fails with NotAllowed, changing nothing,
\* whenever the two users are friends or a pending request exists between
\* them in either direction; otherwise it adds one pending request from->to.
C11_CreateRequestRejectsOnlyThese ==
  [][call'.op = "createRequest"
       => LET f == call'.from
              t == call'.to
          IN IF EdgesBetween(friends, f, t) # {}
                  \/ RowsBetween(requests, f, t, "pending") # {}
             THEN /\ call'.err = "NotAllowed"
                  /\ requests' = requests
                  /\ friends' = friends
             ELSE /\ call'.err = "ok"
                  /\ Len(requests') = Len(requests) + 1
                  /\ SubSeq(requests', 1, Len(requests)) = requests
                  /\ requests'[Len(requests')].from = f
                  /\ requests'[Len(requests')].to = t
                  /\ requests'[Len(requests')].status = "pending"
                  /\ friends' = friends]_vars

\* C11 amended: createRequest fails with NotAllowed, changing nothing,
\* whenever from and to are the same user, the two users are friends, or a
\* pending request exists between them in either direction; otherwise it
\* adds one pending request from->to.
C11_CreateRequest ==
  [][call'.op = "createRequest"
       => LET f == call'.from
              t == call'.to
          IN IF f = t
                  \/ EdgesBetween(friends, f, t) # {}
                  \/ RowsBetween(requests, f, t, "pending") # {}
             THEN /\ call'.err = "NotAllowed"
                  /\ requests' = requests
                  /\ friends' = friends
             ELSE /\ call'.err = "ok"
                  /\ Len(requests') = Len(requests) + 1
                  /\ SubSeq(requests', 1, Len(requests)) = requests
                  /\ requests'[Len(requests')].from = f
                  /\ requests'[Len(requests')].to = t
                  /\ requests'[Len(requests')].status = "pending"
                  /\ friends' = friends]_vars

\* a user asked itself for friendship and was refused
C11_Witness ==
  /\ call.op = "createRequest"
  /\ call.err = "NotAllowed"
  /\ call.from = call.to
  /\ Len(requests) >= 1

\* C12: rejectRequest on a pending request from->to removes the pending
\* row, adds one rejected row for (from, to) and leaves the Friendships, and
\* so getFriends of both users, unchanged.
C12_RejectRequest ==
  [][(call'.op = "rejectRequest"
        /\ RowsFromTo(requests, call'.from, call'.to, "pending") # {})
       => LET f == call'.from
              t == call'.to
          IN /\ call'.err = "ok"
             /\ Cardinality(RowsFromTo(requests', f, t, "pending"))
                  = Cardinality(RowsFromTo(requests, f, t, "pending")) - 1
             /\ Cardinality(RowsFromTo(requests', f, t, "rejected"))
                  = Cardinality(RowsFromTo(requests, f, t, "rejected")) + 1
             /\ Len(requests') = Len(requests)
             /\ friends' = friends
             /\ getFriends(friends', f) = getFriends(friends, f)
             /\ getFriends(friends', t) = getFriends(friends, t)]_vars

\* a request was rejected while its sender has a friend
C12_Witness ==
  /\ call.op = "rejectRequest"
  /\ call.err = "ok"
  /\ RowsFromTo(requests, call.from, call.to, "rejected") # {}
  /\ RowsFromTo(requests, call.from, call.to, "pending") = {}
  /\ Len(getFriends(friends, 1)) >= 1

\* C13: removeFriend removes the Friendship edge of the unordered pair
\* whichever user is stored as user1, after which neither user is in the
\* other's getFriends; without an edge for the pair it fails with NotFound
\* and changes nothing.
C13_RemoveFriend ==
  [][call'.op = "removeFriend"
       => LET u == call'.from
              f == call'.to
          IN IF EdgesBetween(friends, u, f) # {}
             THEN /\ call'.err = "ok"
                  /\ Len(friends') = Len(friends) - 1
                  /\ f \notin Range(getFriends(friends', u))
                  /\ u \notin Range(getFriends(friends', f))
                  /\ requests' = requests
             ELSE /\ call'.err = "NotFound"
                  /\ friends' = friends
                  /\ requests' = requests]_vars

\* the friendship was removed by the user who had been stored as user2 (the
\* receiver of the only accepted request of the pair)
C13_Witness ==
  /\ call.op = "removeFriend"
  /\ call.err = "ok"
  /\ RowsFromTo(requests, call.to, call.from, "accepted") # {}
  /\ RowsFromTo(requests, call.from, call.to, "accepted") = {}

\* status of the last row logged between a and b, "none" if there is none
LatestBetween(coll, a, b) ==
  LET S == {i \in 1..Len(coll) : {coll[i].from, coll[i].to} = {a, b}}
  IN IF S = {} THEN "none"
     ELSE coll[CHOOSE i \in S : \A j \in S : j <= i].status

\* C14 as stated: for a pair whose latest request was accepted or rejected,
\* createRequest between the pair succeeds.
C14_RecreateAfterTerminal ==
  [][(call'.op = "createRequest"
        /\ LatestBetween(requests, call'.from, call'.to) \in {"accepted", "rejected"})
       => (call'.err = "ok" /\ Len(requests') = Len(requests) + 1)]_vars

\* C14 amended: for a pair whose latest request was rejected, createRequest
\* between the pair succeeds; for a pair whose latest request was accepted
\* it succeeds once the Friendship has been removed, and fails with
\* NotAllowed while the two are still friends.
C14_RecreateUnlessFriends ==
  [][(call'.op = "createRequest"
        /\ LatestBetween(requests, call'.from, call'.to) \in {"accepted", "rejected"})
       => IF LatestBetween(requests, call'.from, call'.to) = "accepted"
               /\ EdgesBetween(friends, call'.from, call'.to) # {}
          THEN /\ call'.err = "NotAllowed"
               /\ requests' = requests
          ELSE /\ call'.err = "ok"
               /\ Len(requests') = Len(requests) + 1
               /\ requests'[Len(requests')].status = "pending"]_vars

\* a request was created again for a pair with an accepted request, after
\* the friendship had been removed
C14_Witness ==
  /\ call.op = "createRequest"
  /\ call.err = "ok"
  /\ RowsBetween(requests, call.from, call.to, "accepted") # {}
  /\ RowsFromTo(requests, call.from, call.to, "pending") # {}
  /\ EdgesBetween(friends, call.from, call.to) = {}

\* C15: a request row with status accepted or rejected is never removed or
\* modified by a later Friending action.
C15_LogAppendOnly ==
  [][\A i \in 1..Len(requests) :
       requests[i].status \in {"accepted", "rejected"}
         => \E j \in 1..Len(requests') : requests'[j] = requests[i]]_vars

\* a pending request was removed while a rejected row of the same sender and
\* receiver, logged before it, stays in the log
C15_Witness ==
  /\ call.op = "removeRequest"
  /\ call.err = "ok"
  /\ RowsFromTo(requests, call.from, call.to, "rejected") # {}
  /\ RowsFromTo(requests, call.from, call.to, "pending") = {}

(***************************************************************************)
(* Properties of Labelling                                                 *)
(***************************************************************************)
LabelDocs(coll, label, user) ==
  {i \in 1..Len(coll) : coll[i].label = label /\ coll[i].user = user}

\* C16 as stated: after register(label, U) and a successful add(R, label, U)
\* get(R) contains label; after a successful remove(R, label, U) the label
\* of U no longer has R.
C16_AddThenGet ==
  /\ (call.op \in {"Labelling.add", "Labelling.add2"} /\ call.err = "ok")
       => call.label \in LabelsOf(labels, call.resource)
  /\ (call.op = "Labelling.remove" /\ call.err = "ok")
       => \A i \in LabelDocs(labels, call.label, call.user) :
            call.resource \notin labels[i].resources

\* C17 as stated: add fails with NotFound when the user has no label of that
\* name, and with NotAllowed when it repeats a successful add of the same
\* (resource, label, user); remove of a resource that is not in the label's
\* set fails with NotFound.
C17_AddRemoveErrors ==
  /\ (call.op \in {"Labelling.add", "Labelling.add2"}
        /\ LabelDocs(labels, call.label, call.user) = {})
       => call.err = "NotFound"
  /\ (call.op \in {"Labelling.add", "Labelling.add2"}
        /\ call.prev.op = call.op
        /\ call.prev.err = "ok"
        /\ call.prev.resource = call.resource
        /\ call.prev.label = call.label
        /\ call.prev.user = call.user)
       => call.err = "NotAllowed"
  /\ (call.op = "Labelling.remove"
        /\ \E i \in LabelDocs(labels, call.label, call.user) :
             call.resource \notin labels[i].resources)
       => call.err = "NotFound"

(***************************************************************************)
(* Properties of Sourcing, Templating and Sorting                          *)
(***************************************************************************)
DocsWithId(coll, id) == {i \in 1..Len(coll) : coll[i]._id = id}

\* the collection an unimplemented operation reads its document from
CollectionOf(op) ==
  IF op = "Sorting.sort" THEN sorts
  ELSE IF op = "Sourcing.update" THEN sources
  ELSE templates

Unimplemented == {"Sorting.sort", "Sourcing.update", "Templating.render"}

AllCollections == <<users, requests, friends, labels, sourcingColl,
                    templatingColl, sorts>>

C19_NoDuplicateSources ==
  \A i, j \in 1..Len(sources) :
    (/\ sources[i].target = sources[j].target
     /\ sources[i].path_uri = sources[j].path_uri
     /\ sources[i].user = sources[j].user) => i = j

\* C20 as stated: lookup and unregister of a source id that references no
\* stored Source fail with NotFound; for a Source of another user they fail
\* with NotAllowed and leave it stored; for a Source of the caller lookup
\* returns that Source and unregister deletes it.
C20_OwnershipCheckedExistence ==
  [][call'.op \in {"Sourcing.lookupOne", "Sourcing.unregister"}
       => LET owned == DocsWithId(sources, call'.id)
          IN IF owned = {}
             THEN call'.err = "NotFound" /\ UNCHANGED sourcingColl
             ELSE IF \E i \in owned : sources[i].user # call'.user
             THEN call'.err = "NotAllowed" /\ UNCHANGED sourcingColl
             ELSE /\ call'.err = "ok"
                  /\ call'.op = "Sourcing.lookupOne"
                       => call'.ret = call'.id /\ UNCHANGED sourcingColl
                  /\ call'.op = "Sourcing.unregister"
                       => DocsWithId(sourcingColl', call'.id) = {}]_vars

(***************************************************************************)
(* Properties of Posting                                                   *)
(***************************************************************************)
FeedsWithId(id) == {i \in 1..Len(feeds) : feeds[i]._id = id}

\* C21 as stated: unpost(feedId, postId) on an existing feed that contains
\* the post deletes the post, so that get(feedId) no longer contains it, and
\* leaves the set of registered feeds unchanged.
C21_UnpostDeletes ==
  [][(/\ call'.op = "Posting.unpost"
      /\ \E i \in FeedsWithId(call'.feedId) : call'.postId \in PostsOf(feeds[i]))
       => /\ call'.err = "ok"
          /\ feeds' = feeds
          /\ \A i \in FeedsWithId(call'.feedId) :
               call'.postId \notin {d._id : d \in Range(postColls'[feeds[i].posts])}]_vars

\* C28 as stated: the feed a successful register returns is empty, also when
\* a feed of the same name was registered, posted to and unregistered before.
C28_NewFeedEmpty ==
  (call.op = "Posting.register" /\ call.err = "ok")
    => \A i \in 1..Len(feeds) :
         feeds[i]._id \in call.ret => PostsOf(feeds[i]) = {}

(***************************************************************************)
(* Properties of the Router and of Responses                               *)
(***************************************************************************)
\* C22 as stated: the response to an action that raised a typed domain error
\* carries that type's status code (400 BadValues, 401 Unauthenticated,
\* 403 NotAllowed, 404 NotFound, 501 NotImplemented), with or without a
\* registered enrichment handler; only an error of no domain type gets 500.
C22_StatusOfErrorType ==
  call.op = "Router.makeRoute" => call.status = StaticCode(call.type)

StoredUsers(id) == {i \in 1..Len(users) : users[i]._id = id}

\* the display name of a user id: the stored name, or the sentinel
DisplayName(id) ==
  IF StoredUsers(id) = {} THEN "DELETED_USER"
  ELSE users[CHOOSE i \in StoredUsers(id) : TRUE].username

ListFormatted ==
  /\ call.op = "Responses.posts"
       => /\ call.err = "ok"
          /\ Len(call.body) = Len(call.arg)
          /\ \A i \in 1..Len(call.arg) :
               call.body[i].author = DisplayName(call.arg[i].author)
  /\ call.op = "Responses.friendRequests"
       => /\ call.err = "ok"
          /\ Len(call.body) = Len(call.arg)
          /\ \A i \in 1..Len(call.arg) :
               /\ call.body[i].from = DisplayName(call.arg[i].from)
               /\ call.body[i].to = DisplayName(call.arg[i].to)

\* C23 as stated: Responses.post, posts and friendRequests applied to
\* documents that reference a deleted User return a formatted response with
\* the sentinel display name in place of that user, instead of failing.
C23_SentinelInAllThree ==
  /\ ListFormatted
  /\ call.op = "Responses.post"
       => /\ call.err = "ok"
          /\ Len(call.body) = 1
          /\ call.body[1].author = DisplayName(call.arg[1].author)

\* C23 amended: posts and friendRequests return a formatted response with
\* the sentinel in place of every user that is not stored; post returns the
\* author's name when the author is stored and fails with NotFound otherwise.
C23_SentinelInLists ==
  /\ ListFormatted
  /\ call.op = "Responses.post"
       => IF StoredUsers(call.arg[1].author) = {}
          THEN call.err = "NotFound"
          ELSE /\ call.err = "ok"
               /\ call.body[1].author = DisplayName(call.arg[1].author)

\* friendRequests formatted a request whose sender was registered and then
\* deleted and whose receiver is still stored
C23_Witness ==
  /\ call.op = "Responses.friendRequests"
  /\ Len(call.arg) = 1
  /\ call.arg[1].from < nextUserId
  /\ StoredUsers(call.arg[1].from) = {}
  /\ StoredUsers(call.arg[1].to) # {}
  /\ call.body[1].from = "DELETED_USER"
  /\ call.body[1].to # "DELETED_USER"

(***************************************************************************)
(* Properties of Sorting                                                   *)
(***************************************************************************)
\* the mapping of the profile with this id
WeightsOf(coll, id) == coll[CHOOSE i \in DocsWithId(coll, id) : TRUE].weights

\* the two mappings agree on every label but this one
SameButFor(m1, m2, label) ==
  \A l \in Labels \ {label} :
    /\ MapHas(m1, l) = MapHas(m2, l)
    /\ MapHas(m1, l) => MapGet(m1, l) = MapGet(m2, l)

\* C24: for an existing weight profile, add fails with NotAllowed if the
\* label is in the mapping and otherwise inserts it with its weight; set,
\* get and remove fail with NotFound or NotAllowed if the label is absent and
\* leave the mapping unchanged, and otherwise set writes the weight, remove
\* takes the label out and get returns the weight the mapping holds, which
\* is the one add or set wrote last; no call touches another label, and
\* each label occurs at most once in the mapping.
C24_WeightMapping ==
  [][(/\ call'.op \in {"Sorting.add", "Sorting.set", "Sorting.get", "Sorting.remove"}
      /\ DocsWithId(sorts, call'.id) # {})
       => LET old == WeightsOf(sorts, call'.id)
              new == WeightsOf(sorts', call'.id)
              l == call'.label
              present == MapHas(old, l)
          IN /\ DocsWithId(sorts', call'.id) # {}
             /\ \A k \in 1..Len(new), j \in 1..Len(new) :
                  new[k][1] = new[j][1] => k = j
             /\ SameButFor(old, new, l)
             /\ call'.op = "Sorting.add" =>
                  IF present
                  THEN call'.err = "NotAllowed" /\ new = old
                  ELSE /\ call'.err = "ok"
                       /\ MapHas(new, l) /\ MapGet(new, l) = call'.weight
             /\ call'.op = "Sorting.set" =>
                  IF present
                  THEN /\ call'.err = "ok"
                       /\ MapHas(new, l) /\ MapGet(new, l) = call'.weight
                  ELSE call'.err \in {"NotFound", "NotAllowed"} /\ new = old
             /\ call'.op = "Sorting.remove" =>
                  IF present
                  THEN call'.err = "ok" /\ ~MapHas(new, l)
                  ELSE call'.err \in {"NotFound", "NotAllowed"} /\ new = old
             /\ call'.op = "Sorting.get" =>
                  /\ new = old
                  /\ IF present
                     THEN call'.err = "ok" /\ call'.ret = MapGet(old, l)
                     ELSE call'.err \in {"NotFound", "NotAllowed"}]_vars

\* get returned the weight a set wrote over the one add had inserted
C24_Witness ==
  /\ call.op = "Sorting.get"
  /\ call.err = "ok"
  /\ call.ret = 2
  /\ DocsWithId(sorts, call.id) # {}
  /\ Len(WeightsOf(sorts, call.id)) = 2

(***************************************************************************)
(* Properties of interleaved Friending calls                               *)
(***************************************************************************)
\* C25 as stated: with every store call atomic and the actions interleaving
\* between store calls, no unordered pair of users has both a pending
\* request and a Friendship edge, in any reachable state.
C25_NoPendingWhileFriends ==
  \A i \in 1..Len(requests) :
    requests[i].status = "pending"
      => EdgesBetween(friends, requests[i].from, requests[i].to) = {}

\* C26 as stated: of two createRequest calls for the same unordered pair
\* that interleave between their store calls at most one succeeds, so the
\* pair never has two pending requests nor, later, two Friendship edges.
C26_OneCreateSucceeds ==
  \A pair \in RacePairs :
    /\ Cardinality(RowsBetween(requests, pair[1], pair[2], "pending")) <= 1
    /\ Cardinality(EdgesBetween(friends, pair[1], pair[2])) <= 1

\* the calls on (from, to) whose pop took a pending row
Popped(ops, from, to) ==
  {p \in Procs : /\ procs[p].op \in ops
                 /\ procs[p].from = from /\ procs[p].to = to
                 /\ \/ procs[p].pc \in {"insertBoth", "insertRow", "insertEdge"}
                    \/ procs[p].pc = "done" /\ procs[p].err = "ok"}

\* the createRequest calls that inserted their pending row from -> to
Created(from, to) ==
  {p \in Procs : /\ procs[p].op = "createRequest"
                 /\ procs[p].from = from /\ procs[p].to = to
                 /\ procs[p].pc = "done" /\ procs[p].err = "ok"}

\* C27: of the acceptRequest, rejectRequest and removeRequest calls racing
\* on one pending request exactly one takes the pending row and goes on;
\* every other one fails with NotFound and inserts nothing, so that one
\* pending request gives at most one accepted row and one Friendship edge.
\* Stated over all calls: every pending row ever inserted is either still
\* pending or was taken by exactly one call, a pop that finds a pending row
\* takes it, and the accepted rows and the edges are those of the
\* acceptRequest calls that took a row.
C27_OneConsumerPerRequest ==
  /\ [](\A pair \in RacePairs :
         LET f == pair[1]
             t == pair[2]
             accepts == Popped({"acceptRequest"}, f, t)
         IN /\ Cardinality(RowsFromTo(requests, f, t, "pending"))
                 + Cardinality(Popped(Consumers, f, t))
               = Cardinality(Created(f, t))
            /\ Cardinality(RowsFromTo(requests, f, t, "accepted"))
               = Cardinality({p \in accepts : procs[p].pc \in {"insertEdge", "done"}})
            /\ Cardinality({i \in 1..Len(friends) :
                              friends[i].user1 = f /\ friends[i].user2 = t})
               = Cardinality({p \in accepts : procs[p].pc \in {"insertRow", "done"}}))
  /\ [][\A p \in Procs :
          (procs[p].pc = "popOne" /\ procs'[p] # procs[p])
            => IF RowsFromTo(requests, procs[p].from, procs[p].to, "pending") # {}
               THEN procs'[p].err = "ok" /\ procs'[p].pc # "popOne"
               ELSE /\ procs'[p].err = "NotFound" /\ procs'[p].pc = "done"
                    /\ UNCHANGED friendingVars]_vars

\* two acceptRequest calls raced on the one pending request from 1 to 2:
\* one of them is through, the other one failed with NotFound
C27_Witness ==
  /\ Cardinality(Created(1, 2)) = 1
  /\ \E p, q \in Procs :
       /\ p # q
       /\ procs[p].op = "acceptRequest" /\ procs[q].op = "acceptRequest"
       /\ procs[p].from = 1 /\ procs[p].to = 2
       /\ procs[q].from = 1 /\ procs[q].to = 2
       /\ procs[p].pc = "done" /\ procs[p].err = "ok"
       /\ procs[q].pc = "done" /\ procs[q].err = "NotFound"
  /\ Cardinality(RowsFromTo(requests, 1, 2, "accepted")) = 1
  /\ Len(friends) = 1

(***************************************************************************)
(* Properties of the kinds of documents of one concept                     *)
(***************************************************************************)
\* a document made by Sourcing.register
IsSource(d) == "target" \in DOMAIN d

\* a document made by Templating.add
IsTemplate(d) == "resources" \in DOMAIN d

\* C29 as stated: Sourcing.get returns only Content documents and fails with
\* NotFound for the id of a registered Source; Templating.getRender returns
\* only Render documents and fails with NotFound for the id of an added
\* Template.
C29_KindsKeptApart ==
  /\ call.op = "Sourcing.get"
       => \A i \in DocsWithId(sourcingColl, call.id) :
            IsSource(sourcingColl[i]) => call.err = "NotFound"
  /\ call.op = "Templating.getRender"
       => \A i \in DocsWithId(templatingColl, call.id) :
            IsTemplate(templatingColl[i]) => call.err = "NotFound"

====
